---- MODULE Spec2Model ----
(***************************************************************************)
(* Model of the two serverless request handlers of the news API:           *)
(*   - the news handler  (GET,  query parameters, gnews upstream)          *)
(*   - the chat handler  (POST, JSON body, OpenRouter upstream)            *)
(* One request is in flight at a time; a handler runs from the arrival of  *)
(* the request to its first await (the upstream call) or to its response,  *)
(* and resumes when the upstream call settles.                             *)
(*                                                                         *)
(* JavaScript strings are sequences of one-character strings, so that      *)
(* split, join, includes, toUpperCase and parseInt are computed character  *)
(* by character.  JavaScript values are records tagged by their type.      *)
(***************************************************************************)
EXTENDS Integers, Sequences, FiniteSets, TLC

VARIABLES env, endpoint, req, pc, calls, upres, res, rawArticle, parsed

vars == <<env, endpoint, req, pc, calls, upres, res, rawArticle, parsed>>

(***************************************************************************)
(* Bounds of the model                                                     *)
(***************************************************************************)
MaxNLen == 2
MaxArticles == 3
MaxMsgs == 12
MaxTitleLen == 5

(***************************************************************************)
(* JavaScript values                                                       *)
(***************************************************************************)
Undefined == [t |-> "undefined"]
Null == [t |-> "null"]
Str(s) == [t |-> "string", v |-> s]
Num(i) == [t |-> "number", v |-> i]
NaN == [t |-> "NaN"]
Arr(s) == [t |-> "array", v |-> s]

\* truthiness of a value: undefined, null, NaN, 0 and "" are falsy
Truthy(x) ==
    CASE x.t = "undefined" -> FALSE
      [] x.t = "null" -> FALSE
      [] x.t = "NaN" -> FALSE
      [] x.t = "number" -> x.v # 0
      [] x.t = "string" -> x.v # <<>>
      [] OTHER -> TRUE

\* a || b
OrElse(a, b) == IF Truthy(a) THEN a ELSE b

\* destructuring default: name = dflt applies to undefined only
Default(x, dflt) == IF x = Undefined THEN dflt ELSE x

(***************************************************************************)
(* String operations                                                       *)
(***************************************************************************)
Lowers == <<"a", "b", "c", "d", "e", "f", "g", "h", "i", "j", "k", "l", "m",
            "n", "o", "p", "q", "r", "s", "t", "u", "v", "w", "x", "y", "z">>
Uppers == <<"A", "B", "C", "D", "E", "F", "G", "H", "I", "J", "K", "L", "M",
            "N", "O", "P", "Q", "R", "S", "T", "U", "V", "W", "X", "Y", "Z">>
DigitChars == <<"0", "1", "2", "3", "4", "5", "6", "7", "8", "9">>

Range(s) == {s[i] : i \in DOMAIN s}

UpperChar(c) ==
    IF c \in Range(Lowers)
    THEN Uppers[CHOOSE i \in DOMAIN Lowers : Lowers[i] = c]
    ELSE c

\* String.prototype.toUpperCase
toUpperCase(s) == [i \in 1..Len(s) |-> UpperChar(s[i])]

\* String.prototype.indexOf, 1-based, 0 when absent
IndexOf(s, sub) ==
    LET hits == {i \in 1..(Len(s) - Len(sub) + 1) :
                    SubSeq(s, i, i + Len(sub) - 1) = sub}
    IN IF hits = {} THEN 0 ELSE CHOOSE i \in hits : \A j \in hits : i <= j

\* String.prototype.includes
includes(s, sub) == IndexOf(s, sub) # 0

\* String.prototype.split with a non-empty string separator
RECURSIVE split(_, _)
split(s, sep) ==
    LET i == IndexOf(s, sep)
    IN IF i = 0 THEN <<s>>
       ELSE <<SubSeq(s, 1, i - 1)>> \o split(SubSeq(s, i + Len(sep), Len(s)), sep)

\* Array.prototype.join
RECURSIVE join(_, _)
join(parts, sep) ==
    IF Len(parts) = 0 THEN <<>>
    ELSE IF Len(parts) = 1 THEN parts[1]
    ELSE parts[1] \o sep \o join(Tail(parts), sep)

DigitVal(c) == (CHOOSE i \in DOMAIN DigitChars : DigitChars[i] = c) - 1

RECURSIVE SkipSpaces(_)
SkipSpaces(s) == IF s # <<>> /\ s[1] = " " THEN SkipSpaces(Tail(s)) ELSE s

RECURSIVE DigitPrefix(_)
DigitPrefix(s) ==
    IF s # <<>> /\ s[1] \in Range(DigitChars)
    THEN <<s[1]>> \o DigitPrefix(Tail(s))
    ELSE <<>>

RECURSIVE DigitsValue(_)
DigitsValue(d) ==
    IF d = <<>> THEN 0
    ELSE 10 * DigitsValue(SubSeq(d, 1, Len(d) - 1)) + DigitVal(d[Len(d)])

\* parseInt(s, 10): leading white space, an optional sign, then the longest
\* run of decimal digits; NaN when that run is empty
parseInt(s) ==
    LET t == SkipSpaces(s)
        neg == t # <<>> /\ t[1] = "-"
        u == IF t # <<>> /\ t[1] \in {"-", "+"} THEN Tail(t) ELSE t
        d == DigitPrefix(u)
    IN IF d = <<>> THEN NaN
       ELSE Num(IF neg THEN 0 - DigitsValue(d) ELSE DigitsValue(d))

\* Math.min
MathMin(a, b) == IF a < b THEN a ELSE b

(***************************************************************************)
(* Constants of the news handler                                           *)
(***************************************************************************)
SEP == <<" ", "-", " ">>
Unknown == <<"U", "n", "k", "n", "o", "w", "n">>

T_headlines == <<"h", "e", "a", "d", "l", "i", "n", "e", "s">>
T_topic == <<"t", "o", "p", "i", "c">>
T_search == <<"s", "e", "a", "r", "c", "h">>
T_geo == <<"g", "e", "o">>

DefaultN == <<"2", "0">>
DefaultCountry == <<"u", "s">>
DefaultLanguage == <<"e", "n">>
DefaultCount == 20
MaxCount == 50

validTopics ==
  << <<"W", "O", "R", "L", "D">>,
     <<"B", "U", "S", "I", "N", "E", "S", "S">>,
     <<"T", "E", "C", "H", "N", "O", "L", "O", "G", "Y">>,
     <<"S", "C", "I", "E", "N", "C", "E">>,
     <<"E", "N", "T", "E", "R", "T", "A", "I", "N", "M", "E", "N", "T">>,
     <<"S", "P", "O", "R", "T", "S">>,
     <<"H", "E", "A", "L", "T", "H">> >>

PREMIUM_DOMAINS ==
  << <<"w", "s", "j", ".", "c", "o", "m">>,
     <<"b", "l", "o", "o", "m", "b", "e", "r", "g", ".", "c", "o", "m">>,
     <<"f", "t", ".", "c", "o", "m">>,
     <<"n", "y", "t", "i", "m", "e", "s", ".", "c", "o", "m">>,
     <<"w", "a", "s", "h", "i", "n", "g", "t", "o", "n", "p", "o", "s", "t", ".", "c", "o", "m">>,
     <<"e", "c", "o", "n", "o", "m", "i", "s", "t", ".", "c", "o", "m">>,
     <<"h", "b", "r", ".", "o", "r", "g">>,
     <<"n", "e", "w", "y", "o", "r", "k", "e", "r", ".", "c", "o", "m">>,
     <<"t", "h", "e", "t", "i", "m", "e", "s", ".", "c", "o", ".", "u", "k">>,
     <<"t", "e", "l", "e", "g", "r", "a", "p", "h", ".", "c", "o", ".", "u", "k">>,
     <<"b", "u", "s", "i", "n", "e", "s", "s", "i", "n", "s", "i", "d", "e", "r", ".", "c", "o", "m">>,
     <<"m", "a", "r", "k", "e", "t", "w", "a", "t", "c", "h", ".", "c", "o", "m">>,
     <<"b", "a", "r", "r", "o", "n", "s", ".", "c", "o", "m">> >>

(***************************************************************************)
(* Authentication gate, duplicated at the head of both handlers            *)
(***************************************************************************)
Response(status, body) == [status |-> status, body |-> body]
NoBody == [t |-> "empty"]
NoResponse == Response(0, NoBody)
NoCall == [kind |-> "none"]

Respond(r) == [res |-> r, call |-> NoCall]
Await(c) == [res |-> NoResponse, call |-> c]

\* faulty variant: the method is compared in the wrong case
IsPreflight_LowerCase(r) == r.method = "options"

\* req.method === 'OPTIONS'
IsPreflight(r) == r.method = "OPTIONS"

\* faulty variant: only an unset secret is caught, an empty one is not
SecretMissing_UnsetOnly(e) == e.API_SECRET_KEY = Undefined

\* !apiSecretKey
SecretMissing(e) == ~Truthy(e.API_SECRET_KEY)

\* faulty variant: the credential is only required to be present
KeyRejected_PresenceOnly(e, r) == ~Truthy(r.apiKey)

\* !providedApiKey || providedApiKey !== apiSecretKey
KeyRejected(e, r) == ~Truthy(r.apiKey) \/ r.apiKey # e.API_SECRET_KEY

\* the checks that precede the try block; "pass" when all of them pass
AuthGate(e, r, allowed) ==
    IF IsPreflight(r) THEN Respond(Response(200, NoBody))
    ELSE IF SecretMissing(e)
         THEN Respond(Response(500, [error |-> "Server configuration error"]))
    ELSE IF KeyRejected(e, r)
         THEN Respond(Response(401, [error |-> "Unauthorized: Invalid or missing API key"]))
    ELSE IF r.method # allowed
         THEN Respond(Response(405, [error |-> "Method not allowed"]))
    ELSE Await([kind |-> "pass"])

(***************************************************************************)
(* News handler                                                            *)
(***************************************************************************)
\* Math.min(parseInt(String(n), 10) || 20, 50), with n = '20' by default
Count(n) ==
    MathMin(OrElse(parseInt(Default(n, Str(DefaultN)).v), Num(DefaultCount)).v,
            MaxCount)

NewsOptions(q) ==
    [country |-> Default(q.country, Str(DefaultCountry)).v,
     language |-> Default(q.language, Str(DefaultLanguage)).v,
     n |-> Count(q.n)]

NewsCall(op, arg, options) ==
    [kind |-> "news", op |-> op, arg |-> arg, options |-> options]

\* faulty variant: the last valid topic is never matched
TopicValid_SkipLast(upperTopic) ==
    \E i \in 1..(Len(validTopics) - 1) : validTopics[i] = upperTopic

\* validTopics.includes(upperTopic)
TopicValid(upperTopic) == \E i \in DOMAIN validTopics : validTopics[i] = upperTopic

\* the switch on type: either a 400 response or the upstream call to make
NewsDispatch(q) ==
    LET type == Default(q.type, Str(T_headlines))
        options == NewsOptions(q)
    IN CASE type = Str(T_headlines) ->
              Await(NewsCall("headlines", Undefined, options))
         [] type = Str(T_topic) ->
              IF ~Truthy(q.topic)
              THEN Respond(Response(400, [error |-> "topic parameter required for type=topic"]))
              ELSE LET upperTopic == toUpperCase(q.topic.v)
                   IN IF ~TopicValid(upperTopic)
                      THEN Respond(Response(400,
                               [error |-> "Invalid topic. Valid topics: ",
                                valid |-> validTopics]))
                      ELSE Await(NewsCall("topic", Str(upperTopic), options))
         [] type = Str(T_search) ->
              IF ~Truthy(q.query)
              THEN Respond(Response(400, [error |-> "query parameter required for type=search"]))
              ELSE Await(NewsCall("search", q.query, options))
         [] type = Str(T_geo) ->
              IF ~Truthy(q.location)
              THEN Respond(Response(400, [error |-> "location parameter required for type=geo"]))
              ELSE Await(NewsCall("geo", q.location, options))
         [] OTHER ->
              Respond(Response(400,
                  [error |-> "Invalid type. Valid types: headlines, topic, search, geo"]))

\* the handler from its entry to its first await or to its response
NewsBegin(e, r) ==
    LET g == AuthGate(e, r, "GET")
    IN IF g.call = NoCall THEN g ELSE NewsDispatch(r.query)

\* faulty variant: every premium domain must occur in the link
IsPremium_Every(link) ==
    \A i \in DOMAIN PREMIUM_DOMAINS : includes(link, PREMIUM_DOMAINS[i])

\* PREMIUM_DOMAINS.some(domain => link.includes(domain))
IsPremium(link) ==
    \E i \in DOMAIN PREMIUM_DOMAINS : includes(link, PREMIUM_DOMAINS[i])

\* articles.filter(article => !PREMIUM_DOMAINS.some(...)), link = article.link || ''
FilterArticles(articles) ==
    SelectSeq(articles, LAMBDA a : ~IsPremium(OrElse(a.link, Str(<<>>)).v))

\* parseArticle: the source is split out of "Title - Source"
parseArticle(article) ==
    LET titleParts == IF article.title.t = "string"
                      THEN split(article.title.v, SEP) ELSE <<>>
        popped == Len(titleParts) > 1
        source == IF popped THEN Str(titleParts[Len(titleParts)]) ELSE Str(Unknown)
        rest == IF popped THEN SubSeq(titleParts, 1, Len(titleParts) - 1)
                ELSE titleParts
        title == Str(join(rest, SEP))
    IN [title |-> OrElse(title, article.title),
        link |-> article.link,
        source |-> source]

\* the rest of the try block once the fetch has resolved with articles
NewsSuccess(r, articles) ==
    LET filteredArticles == FilterArticles(articles)
        parsedArticles == [i \in 1..Len(filteredArticles) |->
                              parseArticle(filteredArticles[i])]
    IN Response(200, [success |-> TRUE,
                      count |-> Len(parsedArticles),
                      type |-> Default(r.query.type, Str(T_headlines)),
                      articles |-> parsedArticles])

\* the catch block of the news handler
NewsFailure == Response(500, [success |-> FALSE, error |-> "Failed to fetch news"])

(***************************************************************************)
(* Chat handler.  chat.ts holds the handler twice (lines 43-146 and        *)
(* 178-281); the two copies differ in the text of SYSTEM_PROMPT only, so   *)
(* one model stands for both and the prompt is an opaque constant.         *)
(***************************************************************************)
SYSTEM_PROMPT == <<"S", "Y", "S", "T", "E", "M", "_", "P", "R", "O", "M", "P", "T">>
HistoryLimit == 10

Obj(messages) == [t |-> "object", messages |-> messages]

\* property read that throws a TypeError on undefined and null
Nullish(x) == x.t \in {"undefined", "null"}

\* x?.field, also the plain read x.field of a value that is not nullish
Get(x, field) ==
    IF Nullish(x) THEN Undefined
    ELSE IF field \in DOMAIN x THEN x[field]
    ELSE Undefined

\* x?.[0]
First(x) ==
    IF Nullish(x) THEN Undefined
    ELSE IF x.t = "array" /\ Len(x.v) >= 1 THEN x.v[1]
    ELSE Undefined

\* faulty variant: the first ten messages are kept, slice(0, 10)
LastMessages_FirstTen(messages) ==
    SubSeq(messages, 1, IF Len(messages) < HistoryLimit THEN Len(messages) ELSE HistoryLimit)

\* messages.slice(-10)
LastMessages(messages) ==
    LET len == Len(messages)
        start == IF len - HistoryLimit > 0 THEN len - HistoryLimit ELSE 0
    IN SubSeq(messages, start + 1, len)

\* [{ role: 'system', content: SYSTEM_PROMPT }, ...messages.slice(-10)]
Conversation(messages) ==
    <<[role |-> "system", content |-> SYSTEM_PROMPT]>> \o LastMessages(messages)

\* the catch block of the chat handler
ChatFailure ==
    Response(500, [success |-> FALSE, error |-> "Failed to process chat request"])

\* the try block up to the await of the completion call
ChatPrepare(e, r) ==
    IF ~Truthy(e.OPENROUTER_API_KEY)
    THEN Respond(Response(500, [error |-> "AI service not configured"]))
    ELSE IF Nullish(r.body)
    THEN Respond(ChatFailure)    \* destructuring undefined or null throws
    ELSE LET messages == Get(r.body, "messages")
         IN IF ~Truthy(messages) \/ messages.t # "array" \/ Len(messages.v) = 0
            THEN Respond(Response(400, [error |-> "messages array is required"]))
            ELSE Await([kind |-> "chat", op |-> "completions",
                        messages |-> Conversation(messages.v)])

\* the handler from its entry to its first await or to its response
ChatBegin(e, r) ==
    LET g == AuthGate(e, r, "POST")
    IN IF g.call = NoCall THEN g ELSE ChatPrepare(e, r)

\* response.ok
Ok(status) == status >= 200 /\ status <= 299

Unparsable == [t |-> "unparsable"]

\* data.choices?.[0]?.message?.content (the read of data.choices is not guarded)
AssistantMessage(data) == Get(Get(First(Get(data, "choices")), "message"), "content")

\* the rest of the try block once the completion call has resolved
ChatFinish(response) ==
    IF ~Ok(response.status)
    THEN Response(500, [error |-> "Failed to get AI response",
                        details |-> response.status])
    ELSE IF response.body = Unparsable \/ Nullish(response.body)
    THEN ChatFailure             \* response.json() or data.choices throws
    ELSE LET assistantMessage == AssistantMessage(response.body)
         IN IF ~Truthy(assistantMessage)
            THEN Response(500, [error |-> "No response from AI"])
            ELSE Response(200, [success |-> TRUE,
                                message |-> [role |-> "assistant",
                                             content |-> assistantMessage]])

(***************************************************************************)
(* Inputs: the requests, the configuration and the upstream outcomes       *)
(***************************************************************************)
SeqsUpTo(S, n) == UNION {[1..k -> S] : k \in 0..n}

K1 == <<"k", "1">>
K2 == <<"k", "2">>
OR1 == <<"o", "r", "1">>

Methods == {"OPTIONS", "GET", "POST"}
ApiKeys == {Undefined, Str(<<>>), Str(K1), Str(K2)}
Envs == [API_SECRET_KEY : {Undefined, Str(<<>>), Str(K1)},
         OPENROUTER_API_KEY : {Undefined, Str(OR1)}]

BaseQuery == [type |-> Undefined, topic |-> Undefined, query |-> Undefined,
              location |-> Undefined, n |-> Undefined,
              country |-> Undefined, language |-> Undefined]

Types == {Undefined, Str(T_headlines), Str(T_topic), Str(T_search), Str(T_geo),
          Str(<<"b", "o", "g", "u", "s">>),
          Str(<<"H", "e", "a", "d", "l", "i", "n", "e", "s">>)}
Topics == {Undefined, Str(<<>>),
           Str(<<"t", "e", "c", "h", "n", "o", "l", "o", "g", "y">>),
           Str(<<"H", "e", "a", "l", "t", "h">>),
           Str(<<"W", "O", "R", "L", "D">>),
           Str(<<"F", "O", "O">>),
           Str(<<"s", "p", "o", "r", "t", "s", "x">>)}
Queries == {Undefined, Str(<<>>), Str(<<"a", "i">>)}
Locations == {Undefined, Str(<<>>), Str(<<"P", "u", "n", "e">>)}
NChars == {" ", "-", "0", "5", "9", "a"}
NStrings == SeqsUpTo(NChars, MaxNLen)

NewsQueries ==
    {[BaseQuery EXCEPT !.type = t, !.topic = tp] : t \in Types, tp \in Topics}
    \cup {[BaseQuery EXCEPT !.type = t, !.query = qq, !.location = l] :
            t \in {Undefined, Str(T_search), Str(T_geo)},
            qq \in Queries, l \in Locations}
    \cup {[BaseQuery EXCEPT !.n = Str(s)] : s \in NStrings}

Article(title, link) == [title |-> title, link |-> link]

ArticlePool ==
    {Article(Str(<<"B", "r", "e", "a", "k", "i", "n", "g", " ", "N", "e", "w", "s",
                   " ", "-", " ", "R", "e", "u", "t", "e", "r", "s">>),
             Str(<<"h", "t", "t", "p", "s", ":", "/", "/", "w", "w", "w", ".",
                   "n", "y", "t", "i", "m", "e", "s", ".", "c", "o", "m", "/", "x">>)),
     Article(Str(<<"N", "o", " ", "D", "a", "s", "h", " ", "H", "e", "r", "e">>),
             Str(<<"h", "t", "t", "p", "s", ":", "/", "/", "a", "p", "n", "e", "w",
                   "s", ".", "c", "o", "m", "/", "x">>)),
     Article(Str(<<" ", "-", " ", "R", "e", "u", "t", "e", "r", "s">>),
             Str(<<"h", "t", "t", "p", "s", ":", "/", "/", "d", "r", "a", "f", "t",
                   ".", "c", "o", "m", "/", "x">>)),
     Article(Str(<<"A", " ", "-", " ", "B", " ", "-", " ", "C">>), Undefined),
     Article(Undefined,
             Str(<<"h", "t", "t", "p", "s", ":", "/", "/", "w", "s", "j", ".", "c",
                   "o", "/", "m">>))}
ArticleLists == SeqsUpTo(ArticlePool, MaxArticles)

\* a list of k turns; turn p (if any) claims the system role
Turns(k, p) ==
    [i \in 1..k |->
        [role |-> IF i = p THEN "system"
                  ELSE IF i % 2 = 1 THEN "user" ELSE "assistant",
         content |-> [j \in 1..i |-> "m"]]]

ChatBodies ==
    {Undefined, Null, Str(<<"h", "i">>), [t |-> "object"],
     Obj(Null), Obj(Str(<<>>)), Obj(Str(<<"h", "i">>)), Obj([t |-> "object"])}
    \cup {Obj(Arr(Turns(k, p))) : k \in 0..MaxMsgs, p \in 0..MaxMsgs}

Choice(message) == [t |-> "object", message |-> message]
Msg(content) == [t |-> "object", content |-> content]
Data(choices) == [t |-> "object", choices |-> choices]
Hello == Str(<<"h", "e", "l", "l", "o">>)
Second == Str(<<"s", "e", "c", "o", "n", "d">>)

ProviderBodies ==
    {Unparsable, Null, [t |-> "object"], Data(Null), Data(Arr(<<>>)),
     Data(Arr(<<Null>>)), Data(Arr(<<[t |-> "object"]>>)),
     Data(Arr(<<Choice(Null)>>)), Data(Arr(<<Choice([t |-> "object"])>>)),
     Data(Arr(<<Choice(Msg(Null))>>)), Data(Arr(<<Choice(Msg(Str(<<>>)))>>)),
     Data(Arr(<<Choice(Msg(Hello))>>)),
     Data(Arr(<<Choice(Msg(Hello)), Choice(Msg(Second))>>)),
     Data(Arr(<<Choice(Msg(Str(<<>>))), Choice(Msg(Second))>>))}
ProviderStatuses == {200, 201, 404, 500}
ProviderResponses == [status : ProviderStatuses, body : ProviderBodies]

TitleChars == {" ", "-", "a"}
RawArticles == {Article(Undefined, Undefined)}
               \cup {Article(Str(s), Undefined) : s \in SeqsUpTo(TitleChars, MaxTitleLen)}

(***************************************************************************)
(* The request life cycle                                                  *)
(***************************************************************************)
NoRequest == [method |-> "", apiKey |-> Undefined, query |-> BaseQuery,
              body |-> Undefined]
NoUpstream == [kind |-> "none"]
NoParsed == [t |-> "none"]

Init ==
    /\ env \in Envs
    /\ endpoint = "none"
    /\ req = NoRequest
    /\ pc = "idle"
    /\ calls = <<>>
    /\ upres = NoUpstream
    /\ res = NoResponse
    /\ rawArticle = Article(Undefined, Undefined)
    /\ parsed = NoParsed

\* a request arrives at the news endpoint
ReceiveNews ==
    /\ pc = "idle"
    /\ \E m \in Methods, k \in ApiKeys, q \in NewsQueries :
          req' = [method |-> m, apiKey |-> k, query |-> q, body |-> Undefined]
    /\ endpoint' = "news"
    /\ pc' = "received"
    /\ UNCHANGED <<env, calls, upres, res, rawArticle, parsed>>

\* a request arrives at the chat endpoint
ReceiveChat ==
    /\ pc = "idle"
    /\ \E m \in Methods, k \in ApiKeys, b \in ChatBodies :
          req' = [method |-> m, apiKey |-> k, query |-> BaseQuery, body |-> b]
    /\ endpoint' = "chat"
    /\ pc' = "received"
    /\ UNCHANGED <<env, calls, upres, res, rawArticle, parsed>>

\* a handler runs to its response or to its upstream call
Begin(b) ==
    IF b.call = NoCall
    THEN /\ res' = b.res
         /\ pc' = "done"
         /\ UNCHANGED calls
    ELSE /\ calls' = Append(calls, b.call)
         /\ pc' = "awaiting"
         /\ UNCHANGED res

NewsHandler ==
    /\ pc = "received" /\ endpoint = "news"
    /\ Begin(NewsBegin(env, req))
    /\ UNCHANGED <<env, endpoint, req, upres, rawArticle, parsed>>

ChatHandler ==
    /\ pc = "received" /\ endpoint = "chat"
    /\ Begin(ChatBegin(env, req))
    /\ UNCHANGED <<env, endpoint, req, upres, rawArticle, parsed>>

\* the news fetch resolves with a list of articles
NewsFetchResolved ==
    /\ pc = "awaiting" /\ endpoint = "news"
    /\ \E articles \in ArticleLists :
          /\ upres' = [kind |-> "resolved", value |-> articles]
          /\ res' = NewsSuccess(req, articles)
    /\ pc' = "done"
    /\ UNCHANGED <<env, endpoint, req, calls, rawArticle, parsed>>

\* the news fetch throws
NewsFetchRejected ==
    /\ pc = "awaiting" /\ endpoint = "news"
    /\ upres' = [kind |-> "rejected"]
    /\ res' = NewsFailure
    /\ pc' = "done"
    /\ UNCHANGED <<env, endpoint, req, calls, rawArticle, parsed>>

\* the completion call resolves with an HTTP response
ChatFetchResolved ==
    /\ pc = "awaiting" /\ endpoint = "chat"
    /\ \E response \in ProviderResponses :
          /\ upres' = [kind |-> "resolved", value |-> response]
          /\ res' = ChatFinish(response)
    /\ pc' = "done"
    /\ UNCHANGED <<env, endpoint, req, calls, rawArticle, parsed>>

\* the completion call fails without an HTTP response
ChatFetchRejected ==
    /\ pc = "awaiting" /\ endpoint = "chat"
    /\ upres' = [kind |-> "rejected"]
    /\ res' = ChatFailure
    /\ pc' = "done"
    /\ UNCHANGED <<env, endpoint, req, calls, rawArticle, parsed>>

\* the invocation ends; nothing survives it but the configuration
Finish ==
    /\ pc = "done"
    /\ pc' = "idle"
    /\ endpoint' = "none"
    /\ req' = NoRequest
    /\ calls' = <<>>
    /\ upres' = NoUpstream
    /\ res' = NoResponse
    /\ UNCHANGED <<env, rawArticle, parsed>>

Next ==
    \/ ReceiveNews
    \/ ReceiveChat
    \/ NewsHandler
    \/ ChatHandler
    \/ NewsFetchResolved
    \/ NewsFetchRejected
    \/ ChatFetchResolved
    \/ ChatFetchRejected
    \/ Finish

Spec == Init /\ [][Next]_vars

(***************************************************************************)
(* parseArticle on its own, over every short raw title                     *)
(***************************************************************************)
InitParse ==
    /\ env = [API_SECRET_KEY |-> Str(K1), OPENROUTER_API_KEY |-> Str(OR1)]
    /\ endpoint = "none"
    /\ req = NoRequest
    /\ pc = "idle"
    /\ calls = <<>>
    /\ upres = NoUpstream
    /\ res = NoResponse
    /\ rawArticle \in RawArticles
    /\ parsed = NoParsed

ParseStep ==
    /\ parsed = NoParsed
    /\ parsed' = parseArticle(rawArticle)
    /\ UNCHANGED <<env, endpoint, req, pc, calls, upres, res, rawArticle>>

NextParse == ParseStep

SpecParse == InitParse /\ [][NextParse]_vars

(***************************************************************************)
(* Properties                                                              *)
(***************************************************************************)
Answered == pc \in {"awaiting", "done"}

\* the request carries no credential, or one that differs from the secret
CredentialBad == req.apiKey = Undefined \/ req.apiKey # env.API_SECRET_KEY

\* the configured secret is empty or unset
SecretUnset == env.API_SECRET_KEY = Undefined \/ env.API_SECRET_KEY = Str(<<>>)

\* C1 as stated: every request without the right credential is answered 401,
\* whatever its method and whatever the configuration.
C1_Original ==
    (pc = "done" /\ CredentialBad) => res.status = 401

\* C1 amended: a request that is not a preflight, made while the secret is
\* configured, and that carries no credential or a wrong one, is answered 401
\* at once, without any upstream call.
C1_Unauthorized ==
    (Answered /\ req.method # "OPTIONS" /\ ~SecretUnset /\ CredentialBad)
        => (pc = "done" /\ res.status = 401 /\ calls = <<>>)

C1_Witness ==
    /\ pc = "done" /\ req.method # "OPTIONS" /\ ~SecretUnset
    /\ req.apiKey = Str(K2) /\ env.API_SECRET_KEY = Str(K1)
    /\ res.status = 401

\* C2 as stated: with the secret empty or unset every request is answered 500.
C2_Original ==
    (pc = "done" /\ SecretUnset) => res.status = 500

\* C2 amended: with the secret empty or unset every request that is not a
\* preflight is answered 500 "Server configuration error", whatever its
\* credential; the answer differs from the 401 of a failed authentication.
C2_ServerConfig ==
    (Answered /\ req.method # "OPTIONS" /\ SecretUnset)
        => /\ pc = "done"
           /\ res = Response(500, [error |-> "Server configuration error"])
           /\ res.status # 401

C2_Witness ==
    /\ pc = "done" /\ req.method # "OPTIONS"
    /\ env.API_SECRET_KEY = Str(<<>>) /\ req.apiKey = Str(<<>>)
    /\ res.status = 500

\* C3: an OPTIONS request is answered 200 with an empty body on both
\* endpoints, whatever the credential and the secret, and makes no upstream
\* call.
C3_Preflight ==
    (Answered /\ req.method = "OPTIONS")
        => (pc = "done" /\ res = Response(200, NoBody) /\ calls = <<>>)

C3_Witness ==
    /\ pc = "done" /\ req.method = "OPTIONS" /\ endpoint = "chat"
    /\ env.API_SECRET_KEY = Undefined /\ req.apiKey = Undefined
    /\ res.status = 200

\* C4: the count handed to the upstream fetch lies in 1..50: the parsed
\* integer when that is in the range, 20 when n is absent or does not parse,
\* 50 when the parsed value exceeds 50.
C4_CountInRange ==
    \A i \in DOMAIN calls :
        calls[i].kind = "news" =>
            LET count == calls[i].options.n
                p == IF req.query.n = Undefined THEN NaN ELSE parseInt(req.query.n.v)
            IN /\ count \in 1..50
               /\ (p = NaN => count = 20)
               /\ (p # NaN /\ p.v \in 1..50 => count = p.v)
               /\ (p # NaN /\ p.v > 50 => count = 50)

\* the request has passed the gate of the news endpoint
NewsAdmitted ==
    /\ Answered /\ endpoint = "news" /\ req.method = "GET"
    /\ ~SecretUnset /\ req.apiKey = env.API_SECRET_KEY

LowerChar(c) ==
    IF c \in Range(Uppers)
    THEN Lowers[CHOOSE i \in DOMAIN Uppers : Uppers[i] = c]
    ELSE c

\* equality of two strings up to the case of their letters
SameIgnoringCase(a, b) ==
    /\ Len(a) = Len(b)
    /\ \A i \in 1..Len(a) : LowerChar(a[i]) = LowerChar(b[i])

Answers400 == pc = "done" /\ res.status = 400 /\ calls = <<>>
Fetches(op) == Len(calls) = 1 /\ calls[1].kind = "news" /\ calls[1].op = op
Missing(x) == x = Undefined \/ x = Str(<<>>)

\* C5: an authenticated GET to the news endpoint is dispatched by type:
\* headlines reaches the headlines fetch; topic reaches the topic fetch with
\* the upper-case topic iff the topic equals one of the seven valid topics up
\* to case, and is answered 400 otherwise; search without query, geo without
\* location and any other type are answered 400; a 400 makes no fetch.
C5_Dispatch ==
    NewsAdmitted =>
        LET q == req.query
            type == IF q.type = Undefined THEN Str(T_headlines) ELSE q.type
            matches == {i \in DOMAIN validTopics :
                           /\ q.topic.t = "string"
                           /\ SameIgnoringCase(q.topic.v, validTopics[i])}
        IN /\ type = Str(T_headlines) => Fetches("headlines")
           /\ (type = Str(T_topic) /\ matches # {}) =>
                 /\ Fetches("topic")
                 /\ \E i \in matches : calls[1].arg = Str(validTopics[i])
           /\ (type = Str(T_topic) /\ matches = {}) => Answers400
           /\ (type = Str(T_search) /\ Missing(q.query)) => Answers400
           /\ (type = Str(T_geo) /\ Missing(q.location)) => Answers400
           /\ type \notin {Str(T_headlines), Str(T_topic), Str(T_search), Str(T_geo)}
                 => Answers400
           /\ (pc = "done" /\ res.status = 400) => calls = <<>>

C5_Witness ==
    /\ NewsAdmitted
    /\ req.query.type = Str(T_topic)
    /\ req.query.topic = Str(<<"t", "e", "c", "h", "n", "o", "l", "o", "g", "y">>)
    /\ Fetches("topic")
    /\ calls[1].arg = Str(<<"T", "E", "C", "H", "N", "O", "L", "O", "G", "Y">>)

\* the link of an upstream article holds a premium domain somewhere
HasPremiumLink(a) ==
    /\ a.link.t = "string"
    /\ \E d \in Range(PREMIUM_DOMAINS) :
          \E i \in 1..(Len(a.link.v) - Len(d) + 1) :
              SubSeq(a.link.v, i, i + Len(d) - 1) = d

\* C6: in a successful news response the articles are the upstream articles
\* whose link holds no premium domain, in their upstream order, and count is
\* their number.
C6_PaywallFilter ==
    (pc = "done" /\ endpoint = "news" /\ upres.kind = "resolved" /\ res.status = 200)
        => LET up == upres.value
               kept == {i \in DOMAIN up : ~HasPremiumLink(up[i])}
               articles == res.body.articles
           IN /\ Len(articles) = Cardinality(kept)
              /\ res.body.count = Len(articles)
              /\ \A i \in kept :
                    LET j == Cardinality({k \in kept : k <= i})
                    IN /\ articles[j].link = up[i].link
                       /\ articles[j] = parseArticle(up[i])

C6_Witness ==
    /\ pc = "done" /\ endpoint = "news" /\ upres.kind = "resolved"
    /\ res.status = 200
    /\ Len(upres.value) = 3
    /\ HasPremiumLink(upres.value[2])
    /\ ~HasPremiumLink(upres.value[1]) /\ ~HasPremiumLink(upres.value[3])
    /\ upres.value[1] # upres.value[3]
    /\ res.body.count = 2

\* C7: reshaping splits the raw title on " - ": with more than one segment
\* the source is the last segment and the title is the other segments joined
\* by " - ", so that title + " - " + source is the raw title; otherwise the
\* source is "Unknown" and the title is the raw title.
C7_TitleSplit ==
    (parsed # NoParsed /\ rawArticle.title.t = "string")
        => LET raw == rawArticle.title.v
               segments == split(raw, SEP)
               n == Len(segments)
           IN IF n > 1
              THEN /\ parsed.source = Str(segments[n])
                   /\ parsed.title = Str(join(SubSeq(segments, 1, n - 1), SEP))
                   /\ parsed.title.v \o SEP \o parsed.source.v = raw
              ELSE /\ parsed.source = Str(Unknown)
                   /\ parsed.title = rawArticle.title

\* C8: the completion call of an accepted chat request with k >= 1 messages
\* carries 1 + min(k, 10) messages: the fixed system turn, then the last
\* min(k, 10) caller messages, unchanged and in order.
C8_Conversation ==
    (endpoint = "chat" /\ calls # <<>>)
        => LET messages == req.body.messages.v
               k == Len(messages)
               m == IF k < 10 THEN k ELSE 10
               sent == calls[1].messages
           IN /\ Len(calls) = 1
              /\ k >= 1
              /\ Len(sent) = 1 + m
              /\ sent[1] = [role |-> "system", content |-> SYSTEM_PROMPT]
              /\ \A j \in 1..m : sent[1 + j] = messages[k - m + j]

C8_Witness ==
    /\ endpoint = "chat" /\ calls # <<>>
    /\ Len(req.body.messages.v) = 12
    /\ req.body.messages.v[3].role = "system"
    /\ Len(calls[1].messages) = 11
    /\ calls[1].messages[2] = req.body.messages.v[3]

\* the request has passed the gate of the chat endpoint and the provider key
\* is configured
ChatAdmitted ==
    /\ Answered /\ endpoint = "chat" /\ req.method = "POST"
    /\ ~SecretUnset /\ req.apiKey = env.API_SECRET_KEY
    /\ env.OPENROUTER_API_KEY # Undefined

\* messages is missing (also when there is no body), not a sequence, or empty
MessagesUnusable ==
    LET b == req.body
        messages == IF b.t = "object" /\ "messages" \in DOMAIN b
                    THEN b.messages ELSE Undefined
    IN messages.t # "array" \/ Len(messages.v) = 0

\* C9: an authenticated POST to the chat endpoint whose messages are missing
\* (also when the request has no body), not a sequence or empty is answered
\* 400, and no completion call is made.  Stated for a configured provider key.
C9_BadMessages ==
    (ChatAdmitted /\ MessagesUnusable)
        => (pc = "done" /\ res.status = 400 /\ calls = <<>>)

\* the parsed body holds a reply text at choices[0].message.content
HasReplyText(data) ==
    /\ data.t = "object" /\ "choices" \in DOMAIN data
    /\ data.choices.t = "array" /\ Len(data.choices.v) >= 1
    /\ data.choices.v[1].t = "object" /\ "message" \in DOMAIN data.choices.v[1]
    /\ data.choices.v[1].message.t = "object"
    /\ "content" \in DOMAIN data.choices.v[1].message
    /\ data.choices.v[1].message.content.t = "string"
    /\ data.choices.v[1].message.content.v # <<>>

\* C10: the provider's HTTP response decides the answer of an accepted chat
\* request: a status outside 200..299 gives 500 with that status; a success
\* whose parsed body holds no reply text gives 500 "No response from AI";
\* a success with a reply text gives 200 with that text as the assistant
\* message.  A body that does not parse is none of these cases.
C10_ProviderOutcome ==
    (pc = "done" /\ endpoint = "chat" /\ upres.kind = "resolved"
        /\ upres.value.body # Unparsable)
        => LET response == upres.value
           IN IF response.status \notin 200..299
              THEN res.status = 500 /\ res.body.details = response.status
              ELSE IF ~HasReplyText(response.body)
              THEN res = Response(500, [error |-> "No response from AI"])
              ELSE res = Response(200,
                        [success |-> TRUE,
                         message |-> [role |-> "assistant",
                                      content |-> response.body.choices.v[1].message.content]])

\* the parameters of a news request do not pass validation
NewsParamsInvalid ==
    LET q == req.query
        type == IF q.type = Undefined THEN Str(T_headlines) ELSE q.type
    IN \/ type \notin {Str(T_headlines), Str(T_topic), Str(T_search), Str(T_geo)}
       \/ /\ type = Str(T_topic)
          /\ ~(/\ q.topic.t = "string"
               /\ \E i \in DOMAIN validTopics :
                     SameIgnoringCase(q.topic.v, validTopics[i]))
       \/ type = Str(T_search) /\ Missing(q.query)
       \/ type = Str(T_geo) /\ Missing(q.location)

\* the status of the first check that stops the request, the checks taken
\* in the order preflight, configured secret, credential, method, parameter
\* validation; 0 when every check passes.  The chat handler's check of the
\* provider key stands where the code has it, between the method check and
\* the validation of the body, as one more configuration check.
FirstFailingStatus ==
    IF req.method = "OPTIONS" THEN 200
    ELSE IF SecretUnset THEN 500
    ELSE IF CredentialBad THEN 401
    ELSE IF endpoint = "news" /\ req.method # "GET" THEN 405
    ELSE IF endpoint = "chat" /\ req.method # "POST" THEN 405
    ELSE IF endpoint = "chat" /\ Missing(env.OPENROUTER_API_KEY) THEN 500
    ELSE IF endpoint = "news" /\ NewsParamsInvalid THEN 400
    ELSE IF endpoint = "chat" /\ MessagesUnusable THEN 400
    ELSE 0

\* C11: in both handlers the checks run in the order preflight, configured
\* secret, credential, method, parameter validation, and the request is
\* answered with the status of the first check that stops it; an upstream
\* call is made at most once per request, and only when every check passed.
C11_CheckOrder ==
    Answered =>
        /\ FirstFailingStatus # 0 =>
              (pc = "done" /\ res.status = FirstFailingStatus)
        /\ Len(calls) <= 1
        /\ calls # <<>> => FirstFailingStatus = 0

====
